---- MODULE Spec2Model ----
(***************************************************************************)
(* Model of the placement engine of streamlit_app.py: Item, Container and  *)
(* BinPacker.  One packing run is BinPacker.pack(item_list) on a freshly   *)
(* constructed BinPacker; the "Run Packing" button performs such a run on  *)
(* the same session item list every time it is pressed.                    *)
(***************************************************************************)
EXTENDS Integers, Sequences, FiniteSets, TLC

VARIABLES
  item_list,   \* st.session_state.item_list: the Item specifications
  container,   \* packer.container; container.items holds references (indices
               \* into expanded) to the unit objects, in placement order
  expanded,    \* the local list `expanded` of pack: the unit objects
  idx,         \* position of `for item in expanded` (1-based)
  cands,       \* the list returned by generate_positions() for this unit
  pi,          \* position of `for x,y,z in ...` within cands (1-based)
  oi,          \* position of `for o in item.orientation_preference`
  pc,          \* where pack is: "start", "loop", "search", "done", "error"
  run,         \* "first" or "second" press of Run Packing
  prev         \* what the first run returned, kept to compare the second

vars == <<item_list, container, expanded, idx, cands, pi, oi, pc, run, prev>>

-----------------------------------------------------------------------------
(* Bounds of the model *)

MaxSpecs == 2
MaxUnits == 4

-----------------------------------------------------------------------------
(* Python values *)

\* None, for Item.position (a position is a 3-tuple).
None == <<>>

\* None, for Item.rotation (a rotation is a string).
NoRotation == "None"

\* Lexicographic order of Python tuples of integers of equal length.
RECURSIVE TupleLess(_, _)
TupleLess(a, b) ==
  IF a = <<>> \/ b = <<>> THEN a = <<>> /\ b # <<>>
  ELSE IF Head(a) # Head(b) THEN Head(a) < Head(b)
  ELSE TupleLess(Tail(a), Tail(b))

-----------------------------------------------------------------------------
(* class Item *)

\* Item.__init__; the keyword arguments that the engine never reads
\* (fragile, can_stack, can_stack_same_type, item_type, color) are left out.
\* An empty list (like None) is falsy, so `or` replaces it by ["lwh"].
Item(name, length, width, height, weight, quantity, orientation_preference) ==
  [ name |-> name,
    original_dims |-> <<length, width, height>>,
    length |-> length,
    width |-> width,
    height |-> height,
    weight |-> weight,
    quantity |-> quantity,
    orientation_preference |->
      IF orientation_preference = <<>> THEN <<"lwh">> ELSE orientation_preference,
    position |-> None,
    rotation |-> NoRotation ]

\* The keys of the dictionary of Item.get_dimensions.
OrientationCodes == {"lwh", "lhw", "wlh", "whl", "hlw", "hwl"}

\* Item.get_dimensions; any other key raises KeyError (see RaiseKeyError).
get_dimensions(item, orientation) ==
  LET l == item.original_dims[1]
      w == item.original_dims[2]
      h == item.original_dims[3]
  IN CASE orientation = "lwh" -> <<l, w, h>>
       [] orientation = "lhw" -> <<l, h, w>>
       [] orientation = "wlh" -> <<w, l, h>>
       [] orientation = "whl" -> <<w, h, l>>
       [] orientation = "hlw" -> <<h, l, w>>
       [] orientation = "hwl" -> <<h, w, l>>

\* Item.set_orientation: the item after the call.
set_orientation(item, orientation) ==
  LET d == get_dimensions(item, orientation)
  IN [item EXCEPT !.length = d[1], !.width = d[2], !.height = d[3],
                  !.rotation = orientation]

\* Item.get_volume
get_volume(item) ==
  item.original_dims[1] * item.original_dims[2] * item.original_dims[3]

-----------------------------------------------------------------------------
(* class Container.  The operators below take the container with its items *)
(* dereferenced: c.items is the sequence of the placed unit objects.       *)

\* Container.__init__
Container(length, width, height, max_weight) ==
  [ length |-> length, width |-> width, height |-> height,
    max_weight |-> max_weight, items |-> <<>>, current_weight |-> 0 ]

\* check_overlap with `+ other.height` dropped from its last comparison.
check_overlap_short_z(item, x, y, z, other) ==
  LET px == other.position[1]
      py == other.position[2]
      pz == other.position[3]
  IN ~( x + item.length <= px \/ x >= px + other.length \/
        y + item.width <= py \/ y >= py + other.width \/
        z + item.height <= pz \/ z >= pz )

\* check_overlap with > for >= in the second comparison of the y axis.
check_overlap_strict_y(item, x, y, z, other) ==
  LET px == other.position[1]
      py == other.position[2]
      pz == other.position[3]
  IN ~( x + item.length <= px \/ x >= px + other.length \/
        y + item.width <= py \/ y > py + other.width \/
        z + item.height <= pz \/ z >= pz + other.height )

\* Container.check_overlap
check_overlap(item, x, y, z, other) ==
  LET px == other.position[1]
      py == other.position[2]
      pz == other.position[3]
  IN ~( x + item.length <= px \/ x >= px + other.length \/
        y + item.width <= py \/ y >= py + other.width \/
        z + item.height <= pz \/ z >= pz + other.height )

\* is_valid with the height test copied from the length test: self.length
\* for self.height.
is_valid_copied_bound(c, item, x, y, z) ==
  IF x + item.length > c.length THEN FALSE
  ELSE IF y + item.width > c.width THEN FALSE
  ELSE IF z + item.height > c.length THEN FALSE
  ELSE IF c.current_weight + item.weight > c.max_weight THEN FALSE
  ELSE \A i \in 1..Len(c.items) : ~check_overlap(item, x, y, z, c.items[i])

\* is_valid with >= for > in the weight test.
is_valid_strict_weight(c, item, x, y, z) ==
  IF x + item.length > c.length THEN FALSE
  ELSE IF y + item.width > c.width THEN FALSE
  ELSE IF z + item.height > c.height THEN FALSE
  ELSE IF c.current_weight + item.weight >= c.max_weight THEN FALSE
  ELSE \A i \in 1..Len(c.items) : ~check_overlap(item, x, y, z, c.items[i])

\* Container.is_valid
is_valid(c, item, x, y, z) ==
  IF x + item.length > c.length THEN FALSE
  ELSE IF y + item.width > c.width THEN FALSE
  ELSE IF z + item.height > c.height THEN FALSE
  ELSE IF c.current_weight + item.weight > c.max_weight THEN FALSE
  ELSE \A i \in 1..Len(c.items) : ~check_overlap(item, x, y, z, c.items[i])

\* add_item with items.insert(0, item) for items.append(item).
add_item_in_front(c, ref, item) ==
  [c EXCEPT !.items = <<ref>> \o @,
            !.current_weight = @ + item.weight]

\* Container.add_item, the container's part: `ref` is the reference to the
\* item that is appended.  (The item's part, item.position = (x,y,z), is in
\* TryPlace.)
add_item(c, ref, item) ==
  [c EXCEPT !.items = Append(@, ref),
            !.current_weight = @ + item.weight]

-----------------------------------------------------------------------------
(* class BinPacker *)

\* The container as the methods see it: every reference in container.items
\* followed to the unit object it points to.
Deref(c, heap) ==
  [c EXCEPT !.items = [i \in 1..Len(c.items) |-> heap[c.items[i]]]]

\* BinPacker.__init__
BinPacker(L, W, H, max_weight) == Container(L, W, H, max_weight)

\* The corners taken from the nominal dimensions, not the active ones.
corners_nominal(it) ==
  LET x == it.position[1]
      y == it.position[2]
      z == it.position[3]
  IN { <<x + it.original_dims[1], y, z>>, <<x, y + it.original_dims[2], z>>,
       <<x, y, z + it.original_dims[3]>> }

\* The three pos.add calls of generate_positions for one placed item.
corners(it) ==
  LET x == it.position[1]
      y == it.position[2]
      z == it.position[3]
  IN { <<x + it.length, y, z>>, <<x, y + it.width, z>>, <<x, y, z + it.height>> }

\* The loop of generate_positions over self.container.items, from the set pos.
RECURSIVE add_corners(_, _)
add_corners(pos, items) ==
  IF items = <<>> THEN pos
  ELSE add_corners(pos \cup corners(Head(items)), Tail(items))

\* The sort key without its last component: lambda p: (p[0], p[2]).
position_key_xz(p) == <<p[1], p[3]>>

\* The sort key of generate_positions: lambda p: (p[0], p[2], p[1]).
position_key(p) == <<p[1], p[3], p[2]>>

\* sorted(pos, key=...) of a Python set.  A set is iterated in an order the
\* language does not fix, and sorted is stable, so the call can return any
\* arrangement of the set that is non-decreasing in the key: elements whose
\* keys are equal come out in the order the iteration met them.  The
\* operator is the set of all the lists the call can return.
RECURSIVE sorted_by_key(_)
sorted_by_key(pos) ==
  IF pos = {} THEN { <<>> }
  ELSE LET least == { p \in pos : \A q \in pos :
                        ~TupleLess(position_key(q), position_key(p)) }
       IN UNION { { <<p>> \o rest : rest \in sorted_by_key(pos \ {p}) } : p \in least }

\* BinPacker.generate_positions: the lists the call can return.
generate_positions(c) == sorted_by_key(add_corners({ <<0, 0, 0>> }, c.items))

\* The body of the inner loop of the expansion for one i of range(quantity):
\* the deep copy with quantity 1 and the name f"{it.name}_{i+1}"; n is i+1.
expand_unit(it, n) ==
  [it EXCEPT !.quantity = 1, !.name = it.name \o "_" \o ToString(n)]

\* The expansion loops of pack: range(it.quantity) is empty for quantity <= 0.
RECURSIVE expand(_)
expand(items) ==
  IF items = <<>> THEN <<>>
  ELSE [n \in 1..Head(items).quantity |-> expand_unit(Head(items), n)]
       \o expand(Tail(items))

\* The key of expanded.sort: lambda x: (-x.weight, -x.get_volume()).
sort_key(u) == <<0 - u.weight, 0 - get_volume(u)>>

\* list.sort is stable: an element goes behind every element whose key is
\* not greater than its own.
RECURSIVE insert_sorted(_, _)
insert_sorted(s, u) ==
  IF s = <<>> THEN <<u>>
  ELSE IF TupleLess(sort_key(u), sort_key(Head(s))) THEN <<u>> \o s
  ELSE <<Head(s)>> \o insert_sorted(Tail(s), u)

RECURSIVE sort_units(_, _)
sort_units(done, todo) ==
  IF todo = <<>> THEN done
  ELSE sort_units(insert_sorted(done, Head(todo)), Tail(todo))

\* What a run hands back: the returned container (or the exception), and the
\* names of the units that were given no position.
Result ==
  [ outcome |-> pc,
    container |-> Deref(container, expanded),
    unplaced |-> [i \in 1..Len(SelectSeq(expanded, LAMBDA u : u.position = None))
                    |-> SelectSeq(expanded, LAMBDA u : u.position = None)[i].name] ]

NoResult == [ outcome |-> "none" ]

-----------------------------------------------------------------------------
(* Inputs *)

Names == {"A", "B"}
Weights == {1, 2}

\* Nominal dimensions with the orientation lists tried for them.
Kinds ==
  { << <<1, 1, 1>>, <<"lwh">> >>,
    << <<1, 1, 2>>, <<"hwl", "lwh">> >>,
    << <<1, 2, 3>>, <<"lhw", "whl", "wlh", "hlw">> >> }

\* (L, W, H, max_weight)
Containers == { <<2, 2, 2, 4>>, <<3, 1, 2, 3>> }

WellFormedItems ==
  { Item(n, k[1][1], k[1][2], k[1][3], w, q, k[2]) :
      n \in Names, k \in Kinds, w \in Weights, q \in 1..MaxUnits }

\* Items and containers that section 7 of the specification calls malformed.
\* Item.__init__ has already replaced the empty orientation list by ["lwh"].
MalformedItems ==
  { Item("A", 0, 1, 1, 1, 1, <<"lwh">>),
    Item("A", 1, 1, 0 - 1, 1, 1, <<"lwh">>),
    Item("A", 1, 1, 1, 0, 1, <<"lwh">>),
    Item("A", 1, 1, 1, 0 - 1, 1, <<"lwh">>),
    Item("A", 1, 1, 1, 1, 0, <<"lwh">>),
    Item("A", 1, 1, 1, 1, 0 - 1, <<"lwh">>),
    Item("B", 1, 1, 2, 1, 1, <<>>),
    Item("A", 1, 1, 1, 1, 1, <<"xyz">>),
    Item("A", 1, 1, 2, 1, 1, <<"lwh", "xyz">>) }

MalformedContainers ==
  { <<0, 2, 2, 3>>, <<2, 0 - 1, 2, 3>>, <<2, 2, 0, 3>>,
    <<2, 2, 2, 0>>, <<2, 2, 2, 0 - 1>> }

PlainItems ==
  { Item("A", 1, 1, 1, 1, 1, <<"lwh">>),
    Item("B", 1, 1, 2, 2, 1, <<"hwl", "wlh">>) }

Units(items) == Len(expand(items))

\* The lists of at most MaxSpecs specifications that expand to at most
\* MaxUnits units.
ItemLists(S) ==
  { l \in UNION { [1..n -> S] : n \in 0..MaxSpecs } : Units(l) <= MaxUnits }

-----------------------------------------------------------------------------
(* The run *)

\* The inputs section 6 of the specification allows.
\* Renaming the specifications does not change a run, so the first one is
\* given the name "A".
InitWellFormed ==
  /\ \E c \in Containers : container = BinPacker(c[1], c[2], c[3], c[4])
  /\ item_list \in ItemLists(WellFormedItems)
  /\ item_list # <<>> => item_list[1].name = "A"

\* Inputs with a defect; nothing in the source rejects them.  Each has a
\* defective container with plain items, or a sound container with at least
\* one defective item.
InitMalformed ==
  \/ /\ \E c \in MalformedContainers : container = BinPacker(c[1], c[2], c[3], c[4])
     /\ item_list \in ItemLists(PlainItems)
  \/ /\ \E c \in Containers : container = BinPacker(c[1], c[2], c[3], c[4])
     /\ item_list \in ItemLists(PlainItems \cup MalformedItems)
     /\ \E i \in 1..Len(item_list) : item_list[i] \in MalformedItems

Init ==
  /\ InitWellFormed \/ InitMalformed
  /\ expanded = <<>>
  /\ idx = 0
  /\ cands = <<>>
  /\ pi = 0
  /\ oi = 0
  /\ pc = "start"
  /\ run = "first"
  /\ prev = NoResult

\* pack, lines 99-107: the expansion and the sort.
Expand ==
  /\ pc = "start"
  /\ expanded' = sort_units(<<>>, expand(item_list))
  /\ idx' = 1
  /\ pc' = "loop"
  /\ UNCHANGED <<item_list, container, cands, pi, oi, run, prev>>

\* pack, lines 109-111: the next item of expanded, and its candidates.
NextUnit ==
  /\ pc = "loop"
  /\ idx <= Len(expanded)
  /\ cands' \in generate_positions(Deref(container, expanded))
  /\ pi' = 1
  /\ oi' = 1
  /\ pc' = "search"
  /\ UNCHANGED <<item_list, container, expanded, idx, run, prev>>

\* The item, candidate and orientation of the current iteration.
CurItem == expanded[idx]
CurPos == cands[pi]
CurCode == CurItem.orientation_preference[oi]

\* pack, lines 112-114 with is_valid false: on to the next orientation, or
\* to the next candidate when the orientations are used up.
TryFail ==
  /\ pc = "search"
  /\ pi <= Len(cands)
  /\ CurCode \in OrientationCodes
  /\ LET item == set_orientation(CurItem, CurCode)
     IN /\ ~is_valid(Deref(container, expanded), item, CurPos[1], CurPos[2], CurPos[3])
        /\ expanded' = [expanded EXCEPT ![idx] = item]
  /\ IF oi < Len(CurItem.orientation_preference)
       THEN oi' = oi + 1 /\ pi' = pi
       ELSE oi' = 1 /\ pi' = pi + 1
  /\ UNCHANGED <<item_list, container, idx, cands, pc, run, prev>>

\* pack, lines 113-118 with is_valid true: add_item, and both loops are left.
TryPlace ==
  /\ pc = "search"
  /\ pi <= Len(cands)
  /\ CurCode \in OrientationCodes
  /\ LET item == set_orientation(CurItem, CurCode)
     IN /\ is_valid(Deref(container, expanded), item, CurPos[1], CurPos[2], CurPos[3])
        /\ expanded' = [expanded EXCEPT ![idx] = [item EXCEPT !.position = CurPos]]
        /\ container' = add_item(container, idx, item)
  /\ idx' = idx + 1
  /\ cands' = <<>>
  /\ pi' = 0
  /\ oi' = 0
  /\ pc' = "loop"
  /\ UNCHANGED <<item_list, run, prev>>

\* pack, line 113: get_dimensions raises KeyError for a code that is not a
\* key of its dictionary, and nothing catches it.
RaiseKeyError ==
  /\ pc = "search"
  /\ pi <= Len(cands)
  /\ CurCode \notin OrientationCodes
  /\ pc' = "error"
  /\ UNCHANGED <<item_list, container, expanded, idx, cands, pi, oi, run, prev>>

\* pack, lines 111-118: the candidates are used up with placed still False.
Unplaced ==
  /\ pc = "search"
  /\ pi > Len(cands)
  /\ idx' = idx + 1
  /\ cands' = <<>>
  /\ pi' = 0
  /\ oi' = 0
  /\ pc' = "loop"
  /\ UNCHANGED <<item_list, container, expanded, run, prev>>

\* pack, line 119
Return ==
  /\ pc = "loop"
  /\ idx > Len(expanded)
  /\ pc' = "done"
  /\ UNCHANGED <<item_list, container, expanded, idx, cands, pi, oi, run, prev>>

\* Run Packing pressed again (lines 252-254): a new BinPacker, the same
\* session item list.
RunAgain ==
  /\ pc \in {"done", "error"}
  /\ run = "first"
  /\ prev' = Result
  /\ container' = BinPacker(container.length, container.width, container.height,
                            container.max_weight)
  /\ expanded' = <<>>
  /\ idx' = 0
  /\ cands' = <<>>
  /\ pi' = 0
  /\ oi' = 0
  /\ pc' = "start"
  /\ run' = "second"
  /\ UNCHANGED item_list

Next ==
  \/ Expand
  \/ NextUnit
  \/ TryFail
  \/ TryPlace
  \/ RaiseKeyError
  \/ Unplaced
  \/ Return
  \/ RunAgain

Spec == Init /\ [][Next]_vars

-----------------------------------------------------------------------------
(* Vocabulary of the properties, written out from the geometry rather than *)
(* through the methods of Container and BinPacker.                          *)

\* The placed unit objects, in placement order.
PlacedUnits == [i \in 1..Len(container.items) |-> expanded[container.items[i]]]

Range(s) == { s[i] : i \in 1..Len(s) }

\* The box of a unit at position p with active dimensions d, on axis k, is
\* the interval from p[k] to p[k] + d[k].
ActiveDims(u) == <<u.length, u.width, u.height>>

BoxesDisjoint(p, d, q, e) ==
  \E k \in 1..3 : p[k] + d[k] <= q[k] \/ q[k] + e[k] <= p[k]

InsideContainer(p, d) ==
  /\ p[1] + d[1] <= container.length
  /\ p[2] + d[2] <= container.width
  /\ p[3] + d[3] <= container.height

\* The permutation of the nominal triple n = (l, w, h) that an orientation
\* code spells, letter by letter.
Permuted(n, code) ==
  IF code = "lwh" THEN <<n[1], n[2], n[3]>>
  ELSE IF code = "lhw" THEN <<n[1], n[3], n[2]>>
  ELSE IF code = "wlh" THEN <<n[2], n[1], n[3]>>
  ELSE IF code = "whl" THEN <<n[2], n[3], n[1]>>
  ELSE IF code = "hlw" THEN <<n[3], n[1], n[2]>>
  ELSE <<n[3], n[2], n[1]>>

RECURSIVE SumWeights(_)
SumWeights(units) ==
  IF units = <<>> THEN 0 ELSE Head(units).weight + SumWeights(Tail(units))

\* Unit u, turned by code, can be put at p in the container as it is now.
FitsAt(u, p, code) ==
  /\ code \in OrientationCodes
  /\ InsideContainer(p, Permuted(u.original_dims, code))
  /\ container.current_weight + u.weight <= container.max_weight
  /\ \A i \in 1..Len(PlacedUnits) :
       BoxesDisjoint(p, Permuted(u.original_dims, code),
                     PlacedUnits[i].position, ActiveDims(PlacedUnits[i]))

\* The extreme points of the placed units, with the origin.
ExtremePoints ==
  { <<0, 0, 0>> } \cup
  UNION { { <<u.position[1] + u.length, u.position[2], u.position[3]>>,
            <<u.position[1], u.position[2] + u.width, u.position[3]>>,
            <<u.position[1], u.position[2], u.position[3] + u.height>> } :
          u \in Range(PlacedUnits) }

\* p comes before q in the order x, then z, then y.
BeforeXZY(p, q) ==
  \/ p[1] < q[1]
  \/ p[1] = q[1] /\ p[3] < q[3]
  \/ p[1] = q[1] /\ p[3] = q[3] /\ p[2] < q[2]

\* l lists the extreme points once each, ascending by (x, z, y).
IsCandidateList(l) ==
  /\ Range(l) = ExtremePoints
  /\ Len(l) = Cardinality(ExtremePoints)
  /\ \A i, j \in 1..Len(l) : i < j => BeforeXZY(l[i], l[j])

PositiveItemDimensions ==
  \A i \in 1..Len(item_list) : \A k \in 1..3 : item_list[i].original_dims[k] > 0

PositiveDimensions ==
  /\ PositiveItemDimensions
  /\ container.length > 0 /\ container.width > 0 /\ container.height > 0

\* What section 7 of the specification calls malformed input, as far as the
\* constructed objects still show it.
Malformed ==
  \/ container.length <= 0 \/ container.width <= 0 \/ container.height <= 0
  \/ container.max_weight <= 0
  \/ \E i \in 1..Len(item_list) :
       \/ \E k \in 1..3 : item_list[i].original_dims[k] <= 0
       \/ item_list[i].weight <= 0
       \/ item_list[i].quantity <= 0
       \/ item_list[i].orientation_preference = <<>>
       \/ \E o \in Range(item_list[i].orientation_preference) : o \notin OrientationCodes

AllCodesKnown(u) == Range(u.orientation_preference) \subseteq OrientationCodes

\* Some pair of a candidate and a preferred orientation of the current unit
\* can be used.
ValidPairExists ==
  \E p \in 1..Len(cands), o \in 1..Len(CurItem.orientation_preference) :
    FitsAt(CurItem, cands[p], CurItem.orientation_preference[o])

\* Pair (p, o) is scanned before pair (q, r): candidates outside, orientations inside.
ScannedBefore(p, o, q, r) == p < q \/ (p = q /\ o < r)

\* The placements a result reports: name, position and orientation code.
Placements(res) ==
  [i \in 1..Len(res.container.items) |->
     << res.container.items[i].name, res.container.items[i].position,
        res.container.items[i].rotation >>]

-----------------------------------------------------------------------------
(* C1 *)

\* C1: with positive item and container dimensions, any two distinct units
\* in container.items occupy disjoint boxes: on some axis one box ends at or
\* before the place where the other begins.
C1_PlacedBoxesDisjoint ==
  PositiveDimensions =>
    \A i, j \in 1..Len(PlacedUnits) :
      i # j => BoxesDisjoint(PlacedUnits[i].position, ActiveDims(PlacedUnits[i]),
                             PlacedUnits[j].position, ActiveDims(PlacedUnits[j]))

\* Three units are in the container, one of them on top of another, and a
\* candidate was refused before the last one was placed.
C1_Witness ==
  /\ PositiveDimensions
  /\ Len(PlacedUnits) = 3
  /\ \E i \in 1..3 : PlacedUnits[i].position[3] > 0
  /\ PlacedUnits[3].position # <<0, 0, 0>>

(* C2 *)

\* C2: with positive item and container dimensions, every unit in
\* container.items has a position with no negative coordinate and, with its
\* active dimensions, ends inside the container on every axis.
C2_PlacedInsideContainer ==
  PositiveDimensions =>
    \A i \in 1..Len(PlacedUnits) :
      /\ \A k \in 1..3 : PlacedUnits[i].position[k] >= 0
      /\ InsideContainer(PlacedUnits[i].position, ActiveDims(PlacedUnits[i]))

\* A unit lies on another one and reaches the roof of the container exactly,
\* while a unit of the run found no place.
C2_Witness ==
  /\ PositiveDimensions
  /\ pc = "done"
  /\ \E i \in 1..Len(PlacedUnits) :
       /\ PlacedUnits[i].position[3] > 0
       /\ PlacedUnits[i].position[3] + PlacedUnits[i].height = container.height
  /\ \E i \in 1..Len(expanded) : expanded[i].position = None

(* C3 *)

\* C3: in every state of a run, container.current_weight is the sum of the
\* weights of the units in container.items and is at most container.max_weight.
C3_WeightInvariant ==
  /\ container.current_weight = SumWeights(PlacedUnits)
  /\ container.current_weight <= container.max_weight

\* The same for the containers whose max_weight is not negative.
C3_WeightInvariantNonNegativeLimit ==
  container.max_weight >= 0 => C3_WeightInvariant

(* C4 *)

\* C4: malformed input is rejected before the placement loop: the run of a
\* malformed input is at its start or has ended in an error, has expanded and
\* searched nothing, and has committed no unit.
C4_MalformedRejected ==
  Malformed =>
    /\ pc \in {"start", "error"}
    /\ expanded = <<>>
    /\ container.items = <<>>

(* C5 *)

\* C5: a second run on a fresh packer with the same container parameters and
\* the same item list ends as the first did, and reports the same placed
\* names in the same order with the same positions and orientation codes, and
\* the same unplaced names.
C5_SecondRunSameResult ==
  (run = "second" /\ pc \in {"done", "error"}) =>
    /\ pc = prev.outcome
    /\ Placements(Result) = Placements(prev)
    /\ Result.unplaced = prev.unplaced

\* A second run has ended with three units placed; the third was placed at
\* a candidate that shares x and z with another free candidate.
C5_Witness ==
  /\ run = "second"
  /\ pc = "done"
  /\ Len(PlacedUnits) = 3
  /\ \E p \in ExtremePoints :
       /\ p # PlacedUnits[3].position
       /\ p[1] = PlacedUnits[3].position[1]
       /\ p[3] = PlacedUnits[3].position[3]
       /\ \A i \in 1..3 : p # PlacedUnits[i].position

(* C6 *)

\* C6: the expanded units of a run have pairwise distinct names, and a unit
\* has no position exactly when its name is not among the names in
\* container.items once the run has returned.
C6_DistinctIdentities ==
  /\ \A i, j \in 1..Len(expanded) : i # j => expanded[i].name # expanded[j].name
  /\ pc = "done" =>
       \A i \in 1..Len(expanded) :
         (expanded[i].position = None) <=>
           (expanded[i].name \notin { PlacedUnits[j].name : j \in 1..Len(PlacedUnits) })

\* The same for the item lists whose specifications have distinct names.
C6_DistinctIdentitiesForDistinctNames ==
  (\A i, j \in 1..Len(item_list) : i # j => item_list[i].name # item_list[j].name)
    => C6_DistinctIdentities

(* C7 *)

\* C7: when the search for a unit whose orientation codes are all known ends
\* and no pair of a candidate and a preferred orientation can be used, the
\* container and the unit are left as they were, the unit has no position,
\* and the run goes on with the next unit; no step inside a search changes
\* the container or gives the unit a position; when such a search ends and a
\* pair can be used, the unit has been appended to container.items; and with
\* units left, the only step of the loop is to start the search for the next.
C7_UnplaceableUnitSkipped ==
  /\ [][ (pc = "search" /\ pc' # "search" /\ AllCodesKnown(CurItem)
            /\ ~ValidPairExists) =>
           /\ container' = container
           /\ expanded'[idx].position = None
           /\ pc' = "loop"
           /\ idx' = idx + 1 ]_vars
  /\ [][ (pc = "search" /\ pc' = "search") =>
           /\ container' = container
           /\ expanded'[idx].position = None ]_vars
  /\ [][ (pc = "search" /\ pc' # "search" /\ AllCodesKnown(CurItem)
            /\ ValidPairExists) =>
           /\ container'.items = Append(container.items, idx)
           /\ expanded'[idx].position # None
           /\ pc' = "loop"
           /\ idx' = idx + 1 ]_vars
  /\ [][ (pc = "loop" /\ idx <= Len(expanded)) =>
           (pc' = "search" /\ idx' = idx) ]_vars

\* A unit was refused for its weight alone and a lighter unit behind it in
\* the sorted order was placed.
C7_Witness ==
  \E i, j \in 1..Len(expanded) :
    /\ i < j
    /\ expanded[i].position = None
    /\ expanded[j].position # None
    /\ expanded[j].weight < expanded[i].weight
    /\ i < idx
    /\ InsideContainer(<<0, 0, 0>>, ActiveDims(expanded[i]))
    /\ SumWeights(PlacedUnits) + expanded[i].weight > container.max_weight

(* C8 *)

\* C8: a step that changes container.items within a run is taken in the
\* search for the current unit and appends that unit, which was not in the
\* container before; the unit gets the candidate and the orientation of the
\* pair the scan is at, with the active dimensions of that orientation; that
\* pair can be used, no pair scanned before it can (candidates in the order
\* of generate_positions outside, the preference list inside, against the
\* container as it was throughout the search), and the unit is not visited
\* again.
C8_FirstFit ==
  [][ (run' = run /\ container'.items # container.items) =>
        /\ pc = "search"
        /\ IsCandidateList(cands)
        /\ idx \notin Range(container.items)
        /\ container'.items = Append(container.items, idx)
        /\ expanded'[idx].position = cands[pi]
        /\ expanded'[idx].rotation = CurItem.orientation_preference[oi]
        /\ ActiveDims(expanded'[idx]) =
             Permuted(CurItem.original_dims, CurItem.orientation_preference[oi])
        /\ FitsAt(CurItem, cands[pi], CurItem.orientation_preference[oi])
        /\ \A p \in 1..Len(cands), o \in 1..Len(CurItem.orientation_preference) :
             ScannedBefore(p, o, pi, oi) =>
               ~FitsAt(CurItem, cands[p], CurItem.orientation_preference[o])
        /\ idx' = idx + 1
        /\ pc' = "loop" ]_vars

\* A unit was placed at a candidate other than the first one and in an
\* orientation other than the first of its list, after an earlier candidate
\* was refused for every orientation.
C8_Witness ==
  \E i \in 1..Len(PlacedUnits) :
    /\ PlacedUnits[i].position # <<0, 0, 0>>
    /\ PlacedUnits[i].rotation # PlacedUnits[i].orientation_preference[1]
    /\ Len(PlacedUnits[i].orientation_preference) > 1

(* C9 *)

\* C9: every list generate_positions can return for the container as it is
\* holds exactly the origin and the three corners of every placed unit,
\* each once, ascending by (x, z, y); and the list a search scans is such a
\* list for the container the search runs against.
C9_CandidateList ==
  /\ \A l \in generate_positions(Deref(container, expanded)) : IsCandidateList(l)
  /\ pc = "search" => IsCandidateList(cands)

\* A search scans the candidates of a container with three placed units,
\* one of them turned, where two corners coincide and a candidate with a
\* larger y comes before one with a smaller y.
C9_Witness ==
  /\ pc = "search"
  /\ Len(PlacedUnits) = 3
  /\ Len(cands) < 10
  /\ \E i \in 1..3 : PlacedUnits[i].rotation # "lwh"
  /\ \E i, j \in 1..Len(cands) : i < j /\ cands[i][2] > cands[j][2]

(* C10 *)

\* C10: a step of a run leaves container.items as it is or appends one unit
\* that was not in it, and leaves every unit already in container.items
\* with the position, orientation code and active dimensions it had.
C10_AppendOnly ==
  [][ run' = run =>
        /\ \/ container'.items = container.items
           \/ \E u \in 1..Len(expanded) :
                /\ u \notin Range(container.items)
                /\ container'.items = Append(container.items, u)
        /\ \A u \in Range(container.items) :
             /\ expanded'[u].position = expanded[u].position
             /\ expanded'[u].rotation = expanded[u].rotation
             /\ ActiveDims(expanded'[u]) = ActiveDims(expanded[u]) ]_vars

\* With two units in the container, the search for a later unit has turned
\* that unit and moved on to another candidate.
C10_Witness ==
  /\ pc = "search"
  /\ Len(PlacedUnits) = 2
  /\ pi > 1
  /\ CurItem.rotation # NoRotation

====
